---- MODULE Spec2Model ----
(***************************************************************************)
(* Model of the omni-aud audio/document intake pipeline:                   *)
(*   src/src/lib/audio-processor.ts   convertToWAV, reduceNoise,           *)
(*                                    transcribeAudio (remote variant),    *)
(*                                    processAudioComplete, cleanupTempFiles*)
(*   src/unnamed/part_003             transcribeAudio (local Whisper CLI)  *)
(*   src/src/lib/inngest/functions.ts processFinancialAudio,               *)
(*                                    processFinancialDocument             *)
(*   src/src/app/api/upload/route.ts  POST (upload, record, event)         *)
(*   src/src/app/api/chat/route.ts    POST (chat), GET (document listing)  *)
(*   src/src/components/FinancialReview.tsx, src/src/app/dashboard/page.tsx*)
(*                                    the polling effects of the two pages *)
(*                                                                         *)
(* A path is a sequence of tokens (directory, timestamp, name parts and a  *)
(* dotted extension); a text is a sequence of characters.                  *)
(***************************************************************************)
EXTENDS Integers, Sequences, FiniteSets, TLC

VARIABLES
    disk,     \* the file system: path -> format of the audio stored there
    db,       \* the document store: job id -> record
    events,   \* submission events sent and not yet consumed: job id -> count
    delivered,\* number of deliveries of each job's event so far
    runs,     \* the function runs of the step executor: run id -> run record
    http,     \* the responses to the upload requests made so far
    call,     \* last direct call of a function or handler: arguments, result
    th,       \* the throttle: run starts per window and runs in flight
    view,     \* the detail page open in the browser: job viewed, record displayed
    req,      \* the upload request being handled, between two of its awaits
    dash      \* the dashboard page open in the browser: filter, records listed

vars == <<disk, db, events, delivered, runs, http, call, th, view, req, dash>>

\* no detail page is open
NoView == [id |-> 0]

\* no upload request is being handled
NoReq == [pc |-> "none"]

\* no dashboard page is open
NoDash == [open |-> FALSE]

----------------------------------------------------------------------------
(* Texts *)

NoText == <<"?">>   \* the absence of a text (null / undefined)

\* the texts a backend may return: empty, blank, and two with content
Texts == { <<>>, <<" ">>, <<"h", "i">>, <<" ", "h", "i", " ">> }

IsSpace(c) == c = " "

RECURSIVE TrimLeft(_)
TrimLeft(s) == IF s = <<>> THEN <<>>
               ELSE IF IsSpace(Head(s)) THEN TrimLeft(Tail(s)) ELSE s

RECURSIVE TrimRight(_)
TrimRight(s) == IF s = <<>> THEN <<>>
                ELSE IF IsSpace(s[Len(s)]) THEN TrimRight(SubSeq(s, 1, Len(s) - 1))
                     ELSE s

\* String.prototype.trim
Trim(s) == TrimRight(TrimLeft(s))

\* JavaScript falsiness of a string: !s
Falsy(s) == s = <<>> \/ s = NoText

\* result.text || ''
OrEmpty(s) == IF Falsy(s) THEN <<>> ELSE s

----------------------------------------------------------------------------
(* Paths *)

LowerTok(t) == CASE t = ".WAV" -> ".wav"
                 [] t = ".MP3" -> ".mp3"
                 [] t = ".M4A" -> ".m4a"
                 [] OTHER -> t

DottedToks == { ".wav", ".WAV", ".mp3", ".MP3", ".m4a", ".M4A", ".mp4", ".ogg", ".json" }

\* path.extname(p).toLowerCase(): the last dotted token of the path
ExtLower(p) == IF Len(p) > 0 /\ p[Len(p)] \in DottedToks
               THEN LowerTok(p[Len(p)]) ELSE ""

\* p.replace(/\.(m4a|mp3|mp4)$/i, '.wav')
ReplaceMediaExt(p) ==
    IF ExtLower(p) \in { ".m4a", ".mp3", ".mp4" }
    THEN SubSeq(p, 1, Len(p) - 1) \o << ".wav" >>
    ELSE p

\* p.replace(/\.(m4a|mp3)$/i, '.wav')   (the fallback's probe)
ReplaceM4aMp3(p) ==
    IF ExtLower(p) \in { ".m4a", ".mp3" }
    THEN SubSeq(p, 1, Len(p) - 1) \o << ".wav" >>
    ELSE p

\* p.replace('.wav', '_clean.wav'): the FIRST occurrence only, case-sensitive
RECURSIVE ReplaceFirstWav(_)
ReplaceFirstWav(p) ==
    IF p = <<>> THEN <<>>
    ELSE IF Head(p) = ".wav" THEN << "_clean", ".wav" >> \o Tail(p)
         ELSE << Head(p) >> \o ReplaceFirstWav(Tail(p))

----------------------------------------------------------------------------
(* Audio formats and the file system *)

CanonicalRate == 16000
CanonicalChannels == 1
SampleFileRate == 44100

Canonical == [rate |-> CanonicalRate, ch |-> CanonicalChannels]

Formats == [rate : { CanonicalRate, SampleFileRate }, ch : { 1, 2 }]

Exists(d, p) == p \in DOMAIN d

WriteFile(d, p, f) == [q \in (DOMAIN d) \cup { p } |-> IF q = p THEN f ELSE d[q]]

Unlink(d, p) == [q \in (DOMAIN d) \ { p } |-> d[q]]

\* for (const file of files) { if (fs.existsSync(file)) fs.unlinkSync(file) }
RECURSIVE UnlinkAll(_, _)
UnlinkAll(d, files) ==
    IF files = <<>> THEN d
    ELSE UnlinkAll(IF Exists(d, Head(files)) THEN Unlink(d, Head(files)) ELSE d,
                   Tail(files))

----------------------------------------------------------------------------
(* audio-processor.ts: convertToWAV, reduceNoise *)

\* ffmpeg(input)...save(output): 'end' when the tool succeeds, 'error' otherwise
\* (a missing input is a tool error).  fmt is the format of what it writes.
FfmpegRun(d, inputPath, outputPath, toolOk, fmt) ==
    IF toolOk /\ Exists(d, inputPath)
    THEN [ok |-> TRUE, disk |-> WriteFile(d, outputPath, fmt)]
    ELSE [ok |-> FALSE, disk |-> d]

\* a plausible slip: the extension is compared without toLowerCase()
convertToWAV_caseSensitive(d, inputPath, toolOk) ==
    IF Len(inputPath) > 0 /\ inputPath[Len(inputPath)] = ".wav"
    THEN [threw |-> FALSE, path |-> inputPath, disk |-> d, ran |-> FALSE,
          out |-> << >>]
    ELSE LET outputPath == ReplaceMediaExt(inputPath)
             ff == FfmpegRun(d, inputPath, outputPath, toolOk, Canonical)
         IN  IF ff.ok
             THEN [threw |-> FALSE, path |-> outputPath, disk |-> ff.disk, ran |-> TRUE,
                   out |-> outputPath]
             ELSE [threw |-> TRUE, path |-> << >>, disk |-> ff.disk, ran |-> TRUE,
                   out |-> outputPath]

convertToWAV(d, inputPath, toolOk) ==
    IF ExtLower(inputPath) = ".wav"
    THEN [threw |-> FALSE, path |-> inputPath, disk |-> d, ran |-> FALSE,
          out |-> << >>]
    ELSE LET outputPath == ReplaceMediaExt(inputPath)
             ff == FfmpegRun(d, inputPath, outputPath, toolOk, Canonical)
         IN  IF ff.ok
             THEN [threw |-> FALSE, path |-> outputPath, disk |-> ff.disk, ran |-> TRUE,
                   out |-> outputPath]
             ELSE [threw |-> TRUE, path |-> << >>, disk |-> ff.disk, ran |-> TRUE,
                   out |-> outputPath]

\* a plausible slip: the tool error is propagated (reject) instead of falling back
reduceNoise_rejects(d, inputPath, toolOk) ==
    LET outputPath == ReplaceFirstWav(inputPath)
        ff == FfmpegRun(d, inputPath, outputPath, toolOk,
                        IF Exists(d, inputPath) THEN d[inputPath] ELSE Canonical)
    IN  IF ff.ok
        THEN [threw |-> FALSE, path |-> outputPath, disk |-> ff.disk]
        ELSE [threw |-> TRUE, path |-> << >>, disk |-> ff.disk]

reduceNoise(d, inputPath, toolOk) ==
    LET outputPath == ReplaceFirstWav(inputPath)
        \* the filter chain keeps the sample rate and channel count of its input
        ff == FfmpegRun(d, inputPath, outputPath, toolOk,
                        IF Exists(d, inputPath) THEN d[inputPath] ELSE Canonical)
    IN  IF ff.ok
        THEN [threw |-> FALSE, path |-> outputPath, disk |-> ff.disk]
        ELSE [threw |-> FALSE, path |-> inputPath, disk |-> ff.disk]

----------------------------------------------------------------------------
(* audio-processor.ts: transcribeAudio, the remote (Hugging Face) variant *)

\* an HTTP response of the inference API: status and the "text" of its JSON body
Responses == [status : { 200, 503, 401, 500 }, text : Texts \cup { NoText }]

RespOk(r) == r.status >= 200 /\ r.status <= 299

\* the environment of one call: credential present, first and second response
RemoteEnvs == [token : BOOLEAN, r1 : Responses, r2 : Responses]

Threw(msg, n) == [threw |-> TRUE, text |-> NoText, err |-> msg, requests |-> n]
Returned(t, n) == [threw |-> FALSE, text |-> t, err |-> "", requests |-> n]

\* a plausible slip: the retry is made after any failed response, not only 503
transcribeAudio_retryAnyError(d, audioPath, env) ==
    IF ~env.token THEN Threw("Hugging Face token not configured", 0)
    ELSE IF ~Exists(d, audioPath) THEN Threw("Failed to transcribe audio: ENOENT", 0)
    ELSE IF ~RespOk(env.r1)
         THEN IF ~RespOk(env.r2)
              THEN IF env.r2.status \in { 401 }
                   THEN Threw("Invalid Hugging Face token", 2)
                   ELSE Threw("Failed to transcribe audio: Hugging Face API error", 2)
              ELSE Returned(OrEmpty(env.r2.text), 2)
         ELSE LET transcript == OrEmpty(env.r1.text)
              IN  IF Falsy(transcript) \/ Len(Trim(transcript)) = 0
                  THEN Returned(<< >>, 1)
                  ELSE Returned(transcript, 1)

transcribeAudio(d, audioPath, env) ==
    IF ~env.token THEN Threw("Hugging Face token not configured", 0)
    ELSE IF ~Exists(d, audioPath) THEN Threw("Failed to transcribe audio: ENOENT", 0)
    ELSE IF ~RespOk(env.r1)
         THEN IF env.r1.status = 503
              THEN IF ~RespOk(env.r2)
                   THEN IF env.r2.status \in { 401 }
                        THEN Threw("Invalid Hugging Face token", 2)
                        ELSE Threw("Failed to transcribe audio: Hugging Face API error", 2)
                   ELSE Returned(OrEmpty(env.r2.text), 2)
              ELSE IF env.r1.status \in { 401 }
                   THEN Threw("Invalid Hugging Face token", 1)
                   ELSE Threw("Failed to transcribe audio: Hugging Face API error", 1)
         ELSE LET transcript == OrEmpty(env.r1.text)
              IN  IF Falsy(transcript) \/ Len(Trim(transcript)) = 0
                  THEN Returned(<< >>, 1)
                  ELSE Returned(transcript, 1)

----------------------------------------------------------------------------
(* part_003: transcribeAudio, the local Whisper CLI variant *)

JsonPath(audioPath) == audioPath \o << ".json" >>

\* the environment of one call: the CLI's exit, whether it wrote audioPath.json,
\* what that file holds, whether it parses, and what the CLI printed
LocalEnvs == [execOk : BOOLEAN, writes : BOOLEAN, fileText : Texts \cup { NoText },
              parses : BOOLEAN, stdout : Texts]

JsonFile(t, valid) == [json |-> t, valid |-> valid]

transcribeAudioLocal(d, audioPath, env) ==
    IF ~env.execOk
    THEN [threw |-> TRUE, text |-> NoText, disk |-> d, from |-> "none"]
    ELSE LET jsonPath == JsonPath(audioPath)
             d1 == IF env.writes
                   THEN WriteFile(d, jsonPath, JsonFile(env.fileText, env.parses))
                   ELSE d
         IN  IF Exists(d1, jsonPath)
             THEN IF ~d1[jsonPath].valid
                  THEN [threw |-> TRUE, text |-> NoText, disk |-> d1, from |-> "file"]
                  ELSE [threw |-> FALSE, text |-> Trim(OrEmpty(d1[jsonPath].json)),
                        disk |-> Unlink(d1, jsonPath), from |-> "file"]
             ELSE [threw |-> FALSE, text |-> Trim(env.stdout), disk |-> d1,
                   from |-> "stdout"]

----------------------------------------------------------------------------
(* audio-processor.ts: processAudioComplete, cleanupTempFiles *)

cleanupTempFiles(d, files) == UnlinkAll(d, files)

\* the environment of one call: the two tool outcomes and the transcription's
AudioEnvs(txEnvs) == [convOk : BOOLEAN, noiseOk : BOOLEAN, tx : txEnvs]

\* a stage of the pipeline that was started, and whether it ran to its end
Stage(name, ok) == [stage |-> name, ok |-> ok]

processAudioComplete(d, filePath, env) ==
    LET c  == convertToWAV(d, filePath, env.convOk)
        t1 == IF c.path # filePath THEN << c.path >> ELSE << >>
        n  == reduceNoise(c.disk, c.path, env.noiseOk)
        t2 == IF n.path # c.path THEN Append(t1, n.path) ELSE t1
        t  == transcribeAudio(n.disk, n.path, env.tx)
        Fail(dd, files, msg, started) ==
            [threw |-> TRUE, transcript |-> NoText, wavPath |-> << >>,
             cleanPath |-> << >>, tempFiles |-> files,
             disk |-> UnlinkAll(dd, files), err |-> msg,
             converted |-> c.ran /\ ~c.threw, stages |-> started]
    IN  IF c.threw
        THEN Fail(c.disk, << >>, "Audio conversion failed",
                  << Stage("Convert", FALSE) >>)
        ELSE IF n.threw
        THEN Fail(n.disk, t1, "Noise reduction failed",
                  << Stage("Convert", TRUE), Stage("Denoise", FALSE) >>)
        ELSE IF t.threw
        THEN Fail(n.disk, t2, t.err,
                  << Stage("Convert", TRUE), Stage("Denoise", TRUE),
                     Stage("Transcribe", FALSE) >>)
        ELSE [threw |-> FALSE, transcript |-> t.text, wavPath |-> c.path,
              cleanPath |-> n.path, tempFiles |-> t2,
              disk |-> n.disk, err |-> "", converted |-> c.ran,
              stages |-> << Stage("Convert", TRUE), Stage("Denoise", TRUE),
                            Stage("Transcribe", TRUE) >>]

----------------------------------------------------------------------------
(* Direct calls of the audio-processor functions on drawn inputs *)

UploadDir == << "uploads/" >>

\* file names a client may upload (route.ts keeps the client's name)
FileNames == { << "call", ".mp3" >>, << "call", ".wav" >>, << "call", ".WAV" >>,
               << "call", ".m4a" >>, << "call", ".ogg" >> }

\* Date.now() at the k-th upload request: requests may share a millisecond
Stamp(k) == CASE k = 1 -> "1-" [] k = 2 -> "2-" [] k = 3 -> "3-" [] OTHER -> "4-"

\* path.join(uploadDir, timestamp + '-' + file.name)
UploadPath(stamp, name) == UploadDir \o << stamp >> \o name

\* the transcription environments used where a whole pipeline is exercised
TxCases ==
    { [token |-> FALSE, r1 |-> [status |-> 200, text |-> << "h", "i" >>],
                        r2 |-> [status |-> 200, text |-> << "h", "i" >>]],
      [token |-> TRUE,  r1 |-> [status |-> 200, text |-> << "h", "i" >>],
                        r2 |-> [status |-> 200, text |-> << "h", "i" >>]],
      [token |-> TRUE,  r1 |-> [status |-> 200, text |-> << >>],
                        r2 |-> [status |-> 200, text |-> << >>]],
      [token |-> TRUE,  r1 |-> [status |-> 503, text |-> NoText],
                        r2 |-> [status |-> 200, text |-> << " " >>]],
      [token |-> TRUE,  r1 |-> [status |-> 503, text |-> NoText],
                        r2 |-> [status |-> 200, text |-> << "h", "i" >>]],
      [token |-> TRUE,  r1 |-> [status |-> 500, text |-> NoText],
                        r2 |-> [status |-> 200, text |-> << "h", "i" >>]] }

NoCall == [fn |-> "none"]

InitCall ==
    /\ \E name \in FileNames, f \in Formats, stale \in BOOLEAN :
         LET p == UploadPath("1-", name)
             d == WriteFile(<< >>, p, f)
         IN  disk = IF stale
                    THEN WriteFile(d, JsonPath(p), JsonFile(<< "o", "l", "d" >>, TRUE))
                    ELSE d
    /\ call = NoCall
    /\ db = << >>
    /\ events = << >>
    /\ delivered = << >>
    /\ runs = << >>
    /\ http = << >>
    /\ th = << >>
    /\ view = NoView
    /\ req = NoReq
    /\ dash = NoDash

AudioFiles(d) == { p \in DOMAIN d : ExtLower(p) # ".json" }

CallConvert ==
    /\ call = NoCall
    /\ \E p \in AudioFiles(disk), ok \in BOOLEAN :
       \E r \in { convertToWAV(disk, p, ok) } :
             /\ call' = [fn |-> "convertToWAV", input |-> p, toolOk |-> ok,
                         before |-> disk,
                         ret |-> [threw |-> r.threw, path |-> r.path, ran |-> r.ran,
                                  out |-> r.out]]
             /\ disk' = r.disk
    /\ UNCHANGED <<db, events, delivered, runs, http, th, view, req, dash>>

CallReduceNoise ==
    /\ call = NoCall
    /\ \E p \in AudioFiles(disk), ok \in BOOLEAN :
       \E r \in { reduceNoise(disk, p, ok) } :
             /\ call' = [fn |-> "reduceNoise", input |-> p, toolOk |-> ok,
                         before |-> disk, ret |-> [threw |-> r.threw, path |-> r.path]]
             /\ disk' = r.disk
    /\ UNCHANGED <<db, events, delivered, runs, http, th, view, req, dash>>

CallProcessAudioComplete ==
    /\ call = NoCall
    /\ \E p \in AudioFiles(disk), env \in AudioEnvs(TxCases) :
       \E r \in { processAudioComplete(disk, p, env) } :
             /\ call' = [fn |-> "processAudioComplete", input |-> p, env |-> env,
                         before |-> disk,
                         ret |-> [threw |-> r.threw, transcript |-> r.transcript,
                                  wavPath |-> r.wavPath, cleanPath |-> r.cleanPath,
                                  tempFiles |-> r.tempFiles]]
             /\ disk' = r.disk
    /\ UNCHANGED <<db, events, delivered, runs, http, th, view, req, dash>>

CallTranscribeRemote ==
    /\ call = NoCall
    /\ \E p \in AudioFiles(disk), env \in RemoteEnvs :
       \E r \in { transcribeAudio(disk, p, env) } :
             call' = [fn |-> "transcribeAudio", variant |-> "remote", input |-> p,
                      env |-> env, before |-> disk,
                      ret |-> [threw |-> r.threw, text |-> r.text,
                               requests |-> r.requests]]
    /\ UNCHANGED <<disk, db, events, delivered, runs, http, th, view, req, dash>>

CallTranscribeLocal ==
    /\ call = NoCall
    /\ \E p \in AudioFiles(disk), env \in LocalEnvs :
       \E r \in { transcribeAudioLocal(disk, p, env) } :
             /\ call' = [fn |-> "transcribeAudio", variant |-> "local", input |-> p,
                         env |-> env, before |-> disk,
                         ret |-> [threw |-> r.threw, text |-> r.text, from |-> r.from]]
             /\ disk' = r.disk
    /\ UNCHANGED <<db, events, delivered, runs, http, th, view, req, dash>>


----------------------------------------------------------------------------
(* The document store: FinancialDocument (models/FinancialDocument.ts) *)

NoError == "<none>"
NoAnalysis == [none |-> TRUE]

\* FinancialDocument.create({... status: 'PROCESSING' ...})
NewRecord(fileUrl, fileType) ==
    [status |-> "PROCESSING", fileUrl |-> fileUrl, fileType |-> fileType,
     transcript |-> NoText,
     extracted |-> NoAnalysis, processingError |-> NoError, processedAt |-> FALSE]

\* FinancialDocument.findByIdAndUpdate(id, fields): $set of the given fields.
\* outcome "error" is a rejected promise; an unknown id resolves to null.
findByIdAndUpdate(store, id, fields, outcome) ==
    IF outcome = "error" THEN [threw |-> TRUE, found |-> FALSE, db |-> store]
    ELSE IF id \notin DOMAIN store THEN [threw |-> FALSE, found |-> FALSE, db |-> store]
    ELSE [threw |-> FALSE, found |-> TRUE,
          db |-> [store EXCEPT ![id] =
                    [f \in DOMAIN store[id] |->
                        IF f \in DOMAIN fields THEN fields[f] ELSE store[id][f]]]]

\* the two writes of a step 'update-database', shared by both pipelines:
\* connect, write COMPLETED, on any failure write FAILED and re-raise
\* (only the first thing that fails shapes the outcome)
DbEnvs == { e \in [connect : BOOLEAN, w1 : { "ok", "error" }, w2 : { "ok", "error" }] :
              /\ (~e.connect => e.w1 = "ok")
              /\ (e.w1 = "ok" => e.w2 = "ok") }

\* a plausible slip: the catch re-raises without marking the record FAILED
updateDatabase_noMark(store, id, completedFields, env) ==
    IF ~env.connect
    THEN [threw |-> TRUE, err |-> "connect failed", db |-> store, writes |-> 0]
    ELSE LET u1 == findByIdAndUpdate(store, id, completedFields, env.w1)
         IN  IF ~u1.threw /\ u1.found
             THEN [threw |-> FALSE, err |-> "", db |-> u1.db, writes |-> 1]
             ELSE LET msg == IF u1.threw THEN "write failed" ELSE "Document not found"
                  IN  [threw |-> TRUE, err |-> msg, db |-> u1.db, writes |-> 1]

updateDatabase(store, id, completedFields, env) ==
    IF ~env.connect
    THEN [threw |-> TRUE, err |-> "connect failed", db |-> store, writes |-> 0]
    ELSE LET u1 == findByIdAndUpdate(store, id, completedFields, env.w1)
         IN  IF ~u1.threw /\ u1.found
             THEN [threw |-> FALSE, err |-> "", db |-> u1.db, writes |-> 1]
             ELSE LET msg == IF u1.threw THEN "write failed" ELSE "Document not found"
                      u2 == findByIdAndUpdate(u1.db, id,
                               [status |-> "FAILED", processingError |-> msg,
                                processedAt |-> TRUE], env.w2)
                  IN  [threw |-> TRUE, err |-> msg, db |-> u2.db, writes |-> 2]

----------------------------------------------------------------------------
(* functions.ts: the step callbacks of processFinancialAudio *)

\* Groq Whisper (the fallback transcription backend): key present, call outcome
\* (only the first thing that fails shapes the outcome)
GroqEnvs == { e \in [key : BOOLEAN, ok : BOOLEAN, text : { << >>, << "h", "i" >> }] :
                /\ (~e.key => e.ok)
                /\ (~e.key \/ ~e.ok => e.text = << "h", "i" >>) }

\* the environments of the primary pipeline inside the step (after a failed
\* conversion nothing else is called)
PrimaryEnvs ==
    { a \in AudioEnvs(TxCases) :
        ~a.convOk => (a.noiseOk /\ a.tx.token /\ a.tx.r1 = [status |-> 200, text |-> << "h", "i" >>]) }

\* the fallback's environment matters only when the primary pipeline throws
FallbackEnvs(d, filePath, a) ==
    IF Exists(d, filePath) /\ processAudioComplete(d, filePath, a).threw
    THEN GroqEnvs
    ELSE { [key |-> TRUE, ok |-> TRUE, text |-> << "h", "i" >>] }

\* a plausible slip: an empty primary transcript is treated as a primary failure
\* and handed to the fallback
processAudioPipeline_fallbackOnEmpty(d, filePath, temp, env) ==
    LET Fail(dd, tt, msg, groq, conv, started) ==
            [threw |-> TRUE, err |-> msg, transcript |-> NoText,
             usedHuggingFace |-> FALSE, tempFiles |-> tt,
             disk |-> dd, calledGroq |-> groq, converted |-> conv,
             stages |-> started]
    IN
    IF ~Exists(d, filePath)
    THEN Fail(d, temp, "Failed to process audio: Audio file not found", FALSE, FALSE,
              << >>)
    ELSE LET r == processAudioComplete(d, filePath, env.audio)
         IN  IF ~r.threw /\ ~(Falsy(r.transcript) \/ Len(Trim(r.transcript)) = 0)
             THEN [threw |-> FALSE, err |-> "", transcript |-> r.transcript,
                   usedHuggingFace |-> TRUE, tempFiles |-> r.tempFiles,
                   disk |-> r.disk, calledGroq |-> FALSE,
                   converted |-> r.converted, stages |-> r.stages]
             ELSE IF ~env.groq.key
                  THEN Fail(r.disk, temp,
                            "Failed to process audio: Both Hugging Face and Groq credentials are missing",
                            FALSE, r.converted, r.stages)
                  ELSE LET probe == ReplaceM4aMp3(filePath)
                           audioFile == IF Exists(r.disk, probe) THEN probe ELSE filePath
                       IN  IF ~env.groq.ok \/ ~Exists(r.disk, audioFile)
                           THEN Fail(r.disk, temp,
                                     "Failed to process audio: Groq request failed", TRUE,
                                     r.converted,
                                     Append(r.stages, Stage("Transcribe", FALSE)))
                           ELSE IF Falsy(env.groq.text) \/ Len(Trim(env.groq.text)) = 0
                                THEN Fail(r.disk, temp,
                                          "Failed to process audio: Transcription resulted in empty text",
                                          TRUE, r.converted,
                                          Append(r.stages, Stage("Transcribe", TRUE)))
                                ELSE [threw |-> FALSE, err |-> "",
                                      transcript |-> env.groq.text,
                                      usedHuggingFace |-> FALSE, tempFiles |-> temp,
                                      disk |-> r.disk, calledGroq |-> TRUE,
                                      converted |-> r.converted,
                                      stages |-> Append(r.stages,
                                                        Stage("Transcribe", TRUE))]

\* step 'process-audio-pipeline'.  temp is the function body's tempFiles before
\* the callback runs; it is assigned only when processAudioComplete returns.
processAudioPipeline(d, filePath, temp, env) ==
    LET Fail(dd, tt, msg, groq, conv, started) ==
            [threw |-> TRUE, err |-> msg, transcript |-> NoText,
             usedHuggingFace |-> FALSE, tempFiles |-> tt,
             disk |-> dd, calledGroq |-> groq, converted |-> conv,
             stages |-> started]
    IN
    IF ~Exists(d, filePath)
    THEN Fail(d, temp, "Failed to process audio: Audio file not found", FALSE, FALSE,
              << >>)
    ELSE LET r == processAudioComplete(d, filePath, env.audio)
         IN  IF ~r.threw
             THEN IF Falsy(r.transcript) \/ Len(Trim(r.transcript)) = 0
                  THEN Fail(r.disk, r.tempFiles,
                            "Failed to process audio: Transcription resulted in empty text",
                            FALSE, r.converted, r.stages)
                  ELSE [threw |-> FALSE, err |-> "", transcript |-> r.transcript,
                        usedHuggingFace |-> TRUE, tempFiles |-> r.tempFiles,
                        disk |-> r.disk, calledGroq |-> FALSE,
                        converted |-> r.converted, stages |-> r.stages]
             ELSE IF ~env.groq.key
                  THEN Fail(r.disk, temp,
                            "Failed to process audio: Both Hugging Face and Groq credentials are missing",
                            FALSE, r.converted, r.stages)
                  ELSE LET probe == ReplaceM4aMp3(filePath)
                           audioFile == IF Exists(r.disk, probe) THEN probe ELSE filePath
                       IN  IF ~env.groq.ok \/ ~Exists(r.disk, audioFile)
                           THEN Fail(r.disk, temp,
                                     "Failed to process audio: Groq request failed", TRUE,
                                     r.converted,
                                     Append(r.stages, Stage("Transcribe", FALSE)))
                           ELSE IF Falsy(env.groq.text) \/ Len(Trim(env.groq.text)) = 0
                                THEN Fail(r.disk, temp,
                                          "Failed to process audio: Transcription resulted in empty text",
                                          TRUE, r.converted,
                                          Append(r.stages, Stage("Transcribe", TRUE)))
                                ELSE [threw |-> FALSE, err |-> "",
                                      transcript |-> env.groq.text,
                                      usedHuggingFace |-> FALSE, tempFiles |-> temp,
                                      disk |-> r.disk, calledGroq |-> TRUE,
                                      converted |-> r.converted,
                                      stages |-> Append(r.stages,
                                                        Stage("Transcribe", TRUE))]

\* what the language model may put in the fields of its answer
GoodAnalysis == [sentiment |-> "Positive", speakers |-> << "Agent", "Customer" >>]
LooseAnalysis == [sentiment |-> "positive", speakers |-> << "Agent" >>]
EmptyAnalysis == [sentiment |-> "<undefined>", speakers |-> << >>]

\* the content of a completion: null, text that is not JSON, a JSON object
\* between code-fence markers, or a JSON object
Contents == { [kind |-> "null"], [kind |-> "not-json"],
              [kind |-> "fenced-json", value |-> GoodAnalysis],
              [kind |-> "json", value |-> GoodAnalysis],
              [kind |-> "json", value |-> LooseAnalysis] }

\* the environment of 'analyze-transcript': key present, the backend call's
\* outcome (network / auth error or a completion) and the completion's content
\* (only the first thing that fails shapes the outcome)
LlmEnvs == { e \in [key : BOOLEAN, backendOk : BOOLEAN, content : Contents] :
               /\ (~e.key => e.backendOk)
               /\ (~e.key \/ ~e.backendOk => e.content = [kind |-> "null"]) }

\* step 'analyze-transcript'
analyzeTranscript(transcript, env) ==
    IF ~env.key
    THEN [threw |-> TRUE, err |-> "Failed to analyze transcript: GROQ_API_KEY is missing",
          analysis |-> NoAnalysis]
    ELSE IF ~env.backendOk
    THEN [threw |-> TRUE, err |-> "Failed to analyze transcript: Connection error",
          analysis |-> NoAnalysis]
    \* JSON.parse(responseText): the text is parsed as it came
    ELSE IF env.content.kind \in { "not-json", "fenced-json" }
    THEN [threw |-> TRUE, err |-> "Failed to analyze transcript: Unexpected token",
          analysis |-> NoAnalysis]
    ELSE [threw |-> FALSE, err |-> "",
          analysis |-> IF env.content.kind = "null" THEN EmptyAnalysis
                       ELSE env.content.value]

\* a plausible slip: the transcript is left out of the COMPLETED write
AudioCompletedFields_noTranscript(transcript, analysis) ==
    [status |-> "COMPLETED", extracted |-> analysis, processedAt |-> TRUE]

\* the fields of the COMPLETED write of the audio pipeline's 'update-database'
AudioCompletedFields(transcript, analysis) ==
    [status |-> "COMPLETED", transcript |-> transcript, extracted |-> analysis,
     processedAt |-> TRUE]

----------------------------------------------------------------------------
(* functions.ts: extractFinancialData and the callbacks of processFinancialDocument *)

FenceToks == { "<fence>json<nl>", "<nl><fence>", "<fence>" }

\* answers of the model to the document prompt, as token sequences
DocContents == { << "{json}" >>, << "<fence>json<nl>", "{json}", "<nl><fence>" >>,
                 << "<fence>", "{json}", "<fence>" >>, << "prose", "{json}" >>, << >> }

\* responseText with the code-fence markers replaced by '' (both replace calls)
StripFences(c) == SelectSeq(c, LAMBDA t : t \notin FenceToks)

\* JSON.parse succeeds on exactly one JSON value
Parses(c) == c = << "{json}" >>

DocEnvs == { e \in [key : BOOLEAN, backendOk : BOOLEAN, content : DocContents] :
               /\ (~e.key => e.backendOk)
               /\ (~e.key \/ ~e.backendOk => e.content = << "{json}" >>) }

DocData == [documentType |-> "Invoice"]

extractFinancialData(fileContent, env) ==
    IF ~env.key \/ ~env.backendOk \/ ~Parses(StripFences(env.content))
    THEN [threw |-> TRUE, err |-> "Failed to extract financial data from document",
          data |-> NoAnalysis]
    ELSE [threw |-> FALSE, err |-> "", data |-> DocData]

\* step 'read-file'
readFile(d, filePath, readOk) ==
    IF ~Exists(d, filePath) \/ ~readOk
    THEN [threw |-> TRUE, err |-> "Failed to read uploaded file"]
    ELSE [threw |-> FALSE, err |-> ""]

DocCompletedFields(data) ==
    [status |-> "COMPLETED", extracted |-> data, processedAt |-> TRUE]

----------------------------------------------------------------------------
(* Direct calls of the 'update-database' callback on drawn stores *)

\* stores the callback may find: the job's record as created by the upload, or
\* as an earlier attempt left it
Stores ==
    LET rec == NewRecord(UploadPath("1-", << "call", ".mp3" >>), "audio/mpeg")
    IN  { << rec >>,
          << [rec EXCEPT !.status = "FAILED", !.processingError = "write failed",
                         !.processedAt = TRUE] >> }

CallUpdateDatabase ==
    /\ call = NoCall
    /\ \E store \in Stores, id \in { 1, 2 }, env \in DbEnvs :
       \E fields \in { AudioCompletedFields(<< "h", "i" >>, GoodAnalysis),
                       DocCompletedFields(DocData) } :
       \E r \in { updateDatabase(store, id, fields, env) } :
             /\ call' = [fn |-> "updateDatabase", store |-> store, id |-> id,
                         env |-> env, fields |-> fields,
                         ret |-> [threw |-> r.threw, err |-> r.err,
                                  writes |-> r.writes]]
             /\ db' = r.db
    /\ UNCHANGED <<disk, events, delivered, runs, http, th, view, req, dash>>

\* a path with no file behind it (the upload was removed before the run)
MissingPath == UploadPath("2-", << "call", ".mp3" >>)

\* the callback of step 'process-audio-pipeline' called on its own, with the
\* body's tempFiles still empty
CallProcessAudioPipeline ==
    /\ call = NoCall
    /\ \E p \in AudioFiles(disk) \cup { MissingPath }, a \in PrimaryEnvs, g \in GroqEnvs :
       \E r \in { processAudioPipeline(disk, p, << >>, [audio |-> a, groq |-> g]) } :
             /\ call' = [fn |-> "processAudioPipeline", input |-> p,
                         env |-> [audio |-> a, groq |-> g], before |-> disk,
                         ret |-> [threw |-> r.threw, transcript |-> r.transcript,
                                  usedHuggingFace |-> r.usedHuggingFace,
                                  calledGroq |-> r.calledGroq, stages |-> r.stages]]
             /\ disk' = r.disk
    /\ UNCHANGED <<db, events, delivered, runs, http, th, view, req, dash>>

\* the callback of step 'analyze-transcript' called on its own
CallAnalyzeTranscript ==
    /\ call = NoCall
    /\ \E env \in LlmEnvs :
       \E r \in { analyzeTranscript(<< "h", "i" >>, env) } :
             call' = [fn |-> "analyzeTranscript", env |-> env,
                      ret |-> [threw |-> r.threw, err |-> r.err,
                               analysis |-> r.analysis]]
    /\ UNCHANGED <<disk, db, events, delivered, runs, http, th, view, req, dash>>

\* extractFinancialData called on its own
CallExtractFinancialData ==
    /\ call = NoCall
    /\ \E env \in DocEnvs :
       \E r \in { extractFinancialData(<< >>, env) } :
             call' = [fn |-> "extractFinancialData", env |-> env,
                      ret |-> [threw |-> r.threw, err |-> r.err, data |-> r.data]]
    /\ UNCHANGED <<disk, db, events, delivered, runs, http, th, view, req, dash>>

\* POST /api/chat.  The body's documentId is absent, the id of a record, a
\* well-formed id of no record, or a string that is no ObjectId (findById then
\* rejects with a CastError); chatWithDocument makes one call of the model.
ChatIds == { [kind |-> "absent"], [kind |-> "id", id |-> 1], [kind |-> "id", id |-> 2],
             [kind |-> "malformed"] }

ChatEnvs == [connect : BOOLEAN, modelOk : BOOLEAN]

ChatPOST(store, documentId, message, env) ==
    LET Answer(code, calls) == [status |-> code, modelCalls |-> calls, db |-> store]
    IN  IF documentId.kind = "absent" \/ Falsy(message) THEN Answer(400, 0)
        ELSE IF ~env.connect THEN Answer(500, 0)
        ELSE IF documentId.kind = "malformed" THEN Answer(500, 0)
        ELSE IF documentId.id \notin DOMAIN store THEN Answer(404, 0)
        ELSE IF store[documentId.id].status # "COMPLETED" THEN Answer(400, 0)
        ELSE IF ~env.modelOk THEN Answer(500, 1)
        ELSE Answer(200, 1)

\* the stores a chat request may find: those of Stores and a completed job
ChatStores ==
    Stores \cup { << [s[1] EXCEPT !.status = "COMPLETED", !.transcript = << "h", "i" >>,
                                  !.extracted = GoodAnalysis, !.processedAt = TRUE] >> :
                  s \in { t \in Stores : t[1].status = "PROCESSING" } }

CallChat ==
    /\ call = NoCall
    /\ \E store \in ChatStores, documentId \in ChatIds, env \in ChatEnvs :
       \E message \in { NoText, << >>, << "h", "i" >> } :
       \E r \in { ChatPOST(store, documentId, message, env) } :
             /\ call' = [fn |-> "chat", store |-> store, documentId |-> documentId,
                         message |-> message, env |-> env,
                         ret |-> [status |-> r.status, modelCalls |-> r.modelCalls]]
             /\ db' = r.db
    /\ UNCHANGED <<disk, events, delivered, runs, http, th, view, req, dash>>

NextCall ==
    \/ CallConvert
    \/ CallReduceNoise
    \/ CallProcessAudioComplete
    \/ CallTranscribeRemote
    \/ CallTranscribeLocal
    \/ CallUpdateDatabase
    \/ CallProcessAudioPipeline
    \/ CallAnalyzeTranscript
    \/ CallExtractFinancialData
    \/ CallChat

CallSpec == InitCall /\ [][NextCall]_vars

----------------------------------------------------------------------------
(* route.ts: POST /api/upload *)

MaxUploads == 2      \* upload requests made in all
MaxRuns == 2         \* function runs started in all

AllowedTypes == { "application/pdf", "image/png", "image/jpeg", "text/plain",
                  "application/vnd.openxmlformats-officedocument.wordprocessingml.document",
                  "audio/mpeg", "audio/wav", "audio/mp3" }

\* file.type.startsWith('audio/')
IsAudioType(t) == t \in { "audio/mpeg", "audio/wav", "audio/mp3", "audio/ogg" }

NoFile == [name |-> << >>, type |-> ""]

\* the files a client submits: name, MIME type
Uploads == { [name |-> << "call", ".mp3" >>, type |-> "audio/mpeg"],
             [name |-> << "call", ".wav" >>, type |-> "audio/wav"],
             [name |-> << "bill", ".txt" >>, type |-> "text/plain"],
             [name |-> << "call", ".ogg" >>, type |-> "audio/ogg"],
             NoFile }

DocFile == [doc |-> TRUE]

\* what the uploaded bytes are: a .wav upload is a 44.1 kHz recording (as the
\* repository's sample file), other audio is taken as 16 kHz mono
UploadedAudio(name) ==
    IF ExtLower(name) = ".wav" THEN [rate |-> SampleFileRate, ch |-> 1] ELSE Canonical

\* where the request fails, if it does
UploadFaults == { "none", "connect", "send" }

NextId(store) == Cardinality(DOMAIN store) + 1

Extend(f, k, v) == [x \in (DOMAIN f) \cup { k } |-> IF x = k THEN v ELSE f[x]]

Upload ==
    /\ Len(http) < MaxUploads
    /\ Len(runs) + Cardinality({ j \in DOMAIN events : delivered[j] = 0 }) < MaxRuns
    /\ \E file \in Uploads, k \in 1 .. (Len(http) + 1), fault \in UploadFaults :
         LET filePath == UploadPath(Stamp(k), file.name)
             id == NextId(db)
             content == IF IsAudioType(file.type) THEN UploadedAudio(file.name) ELSE DocFile
             eventName == IF IsAudioType(file.type) THEN "app/audio.uploaded"
                          ELSE "app/document.uploaded"
         IN
         IF fault = "connect"
         THEN /\ http' = Append(http, 500)
              /\ UNCHANGED <<disk, db, events, delivered>>
         ELSE IF file = NoFile \/ file.type \notin AllowedTypes
         THEN /\ http' = Append(http, 400)
              /\ UNCHANGED <<disk, db, events, delivered>>
         ELSE IF fault = "send"
         THEN /\ http' = Append(http, 500)
              /\ disk' = WriteFile(disk, filePath, content)
              /\ db' = Extend(db, id, NewRecord(filePath, file.type))
              /\ UNCHANGED <<events, delivered>>
         ELSE /\ http' = Append(http, 200)
              /\ disk' = WriteFile(disk, filePath, content)
              /\ db' = Extend(db, id, NewRecord(filePath, file.type))
              /\ events' = Extend(events, id,
                               [name |-> eventName, documentId |-> id,
                                filePath |-> filePath])
              /\ delivered' = Extend(delivered, id, 0)
    /\ UNCHANGED <<runs, call, th, view, req, dash>>

----------------------------------------------------------------------------
(* The step executor running processFinancialAudio / processFinancialDocument *)

MaxDeliveries == 2   \* deliveries of one submission event (at-least-once)
MaxRetries == 1      \* re-executions of a failing step before the run fails

NoResult == [none |-> TRUE]

FirstStep(eventName) == IF eventName = "app/audio.uploaded"
                        THEN "process-audio-pipeline" ELSE "read-file"

\* const { documentId, filePath } = event.data;  let tempFiles = []
NewRun(ev) ==
    [fn |-> IF ev.name = "app/audio.uploaded" THEN "processFinancialAudio"
            ELSE "processFinancialDocument",
     documentId |-> ev.documentId, filePath |-> ev.filePath,
     pc |-> FirstStep(ev.name), attempt |-> 0, tempFiles |-> << >>,
     audioResult |-> NoResult, analysisData |-> NoAnalysis, error |-> NoError,
     \* stages that ran to their end in an earlier attempt of the current step,
     \* and those of them that the last attempt ran again
     done |-> { }, redone |-> { }]

\* events sent and not handed to the function yet
Undelivered == { j \in DOMAIN events : delivered[j] = 0 }

\* runs started or owed to a sent event (MaxRuns caps what the environment adds:
\* an upload or a duplicate delivery, never the first delivery of a sent event)
RunBudgetUsed == Len(runs) + Cardinality(Undelivered)

\* the event of job j is handed to its function: a run starts
Deliver(j) ==
    /\ j \in DOMAIN events
    /\ delivered[j] = 0
    /\ delivered' = [delivered EXCEPT ![j] = 1]
    /\ runs' = Append(runs, NewRun(events[j]))
    /\ UNCHANGED <<disk, db, events, http, call, th, view, req, dash>>

\* at-least-once delivery: the same event is handed over again, a second run starts
Redeliver(j) ==
    /\ j \in DOMAIN events
    /\ delivered[j] >= 1
    /\ delivered[j] < MaxDeliveries
    /\ RunBudgetUsed < MaxRuns
    /\ delivered' = [delivered EXCEPT ![j] = @ + 1]
    /\ runs' = Append(runs, NewRun(events[j]))
    /\ UNCHANGED <<disk, db, events, http, call, th, view, req, dash>>

Range(q) == { q[i] : i \in DOMAIN q }

Terminal(pc) == pc \in { "completed", "failed" }

\* The executor runs one step per entry of the function body: it enters the body,
\* replays the recorded results of the steps already run, runs the callback of the
\* first step without a result, records what it returned or threw, and leaves.
\* The body's local tempFiles starts as [] at every entry (functions.ts:109), so
\* an assignment made inside a callback is gone at the next entry.
EnterBody(run) == [run EXCEPT !.tempFiles = << >>, !.redone = { }]

\* a step's callback returned: its result is recorded; the next entry goes on
Succeed(run, nextPc) ==
    EnterBody([run EXCEPT !.pc = nextPc, !.attempt = 0, !.done = { }])

\* the run ended: the executor keeps nothing of it but how it ended
End(run, how) ==
    EnterBody([run EXCEPT !.pc = how, !.attempt = 0, !.audioResult = NoResult,
                          !.analysisData = NoAnalysis, !.done = { }])

\* a step's callback threw: the step is run again in a new entry or, with the
\* retries used up, the next entry gets the error thrown from step.run
Throw(run, msg) ==
    IF run.attempt < MaxRetries
    THEN EnterBody([run EXCEPT !.attempt = @ + 1])
    ELSE [End(run, "failed") EXCEPT !.error = msg]

\* processFinancialAudio's catch block, run by the entry that gets the error:
\* if (tempFiles.length > 0) cleanupTempFiles(tempFiles); throw error
CatchBlock(run, d) ==
    IF run.attempt < MaxRetries THEN d
    ELSE LET tempFiles == EnterBody(run).tempFiles
         IN  IF Len(tempFiles) > 0 THEN cleanupTempFiles(d, tempFiles) ELSE d

StepProcessAudio(i) ==
    /\ runs[i].pc = "process-audio-pipeline"
    /\ \E a \in PrimaryEnvs :
       \E g \in FallbackEnvs(disk, runs[i].filePath, a) :
       \E r \in { processAudioPipeline(disk, runs[i].filePath, runs[i].tempFiles,
                                       [audio |-> a, groq |-> g]) } :
       \E ran \in { IF r.converted THEN { "convert" } ELSE { } } :
       \E run \in { [runs[i] EXCEPT !.done = @ \cup ran] } :
             IF r.threw
             THEN /\ runs' = [runs EXCEPT ![i] =
                                [Throw(run, r.err)
                                   EXCEPT !.redone = ran \cap runs[i].done]]
                  /\ disk' = CatchBlock(run, r.disk)
             ELSE /\ runs' = [runs EXCEPT ![i] =
                                [Succeed(run, "analyze-transcript")
                                   EXCEPT !.audioResult =
                                            [transcript |-> r.transcript,
                                             usedHuggingFace |-> r.usedHuggingFace],
                                          !.redone = ran \cap runs[i].done]]
                  /\ disk' = r.disk
    /\ UNCHANGED <<db, events, delivered, http, call, th, view, req, dash>>

StepAnalyze(i) ==
    /\ runs[i].pc = "analyze-transcript"
    /\ \E env \in LlmEnvs :
       \E run \in { runs[i] } :
       \E r \in { analyzeTranscript(run.audioResult.transcript, env) } :
             IF r.threw
             THEN /\ runs' = [runs EXCEPT ![i] = Throw(run, r.err)]
                  /\ disk' = CatchBlock(run, disk)
             ELSE /\ runs' = [runs EXCEPT ![i] =
                                [Succeed(run, "update-database")
                                   EXCEPT !.analysisData = r.analysis]]
                  /\ disk' = disk
    /\ UNCHANGED <<db, events, delivered, http, call, th, view, req, dash>>

StepUpdateAudio(i) ==
    /\ runs[i].fn = "processFinancialAudio"
    /\ runs[i].pc = "update-database"
    /\ \E env \in DbEnvs :
       \E run \in { runs[i] } :
       \E r \in { updateDatabase(db, run.documentId,
                     AudioCompletedFields(run.audioResult.transcript, run.analysisData),
                     env) } :
             /\ db' = r.db
             /\ IF r.threw
                THEN /\ runs' = [runs EXCEPT ![i] = Throw(run, r.err)]
                     /\ disk' = CatchBlock(run, disk)
                ELSE /\ runs' = [runs EXCEPT ![i] = Succeed(run, "cleanup")]
                     /\ disk' = disk
    /\ UNCHANGED <<events, delivered, http, call, th, view, req, dash>>

\* step 'cleanup', then the body returns
StepCleanup(i) ==
    /\ runs[i].pc = "cleanup"
    /\ runs' = [runs EXCEPT ![i] = End(runs[i], "completed")]
    /\ disk' = IF Len(runs[i].tempFiles) > 0
               THEN cleanupTempFiles(disk, runs[i].tempFiles) ELSE disk
    /\ UNCHANGED <<db, events, delivered, http, call, th, view, req, dash>>

\* processFinancialDocument has no catch block: a failed step fails the run
StepReadFile(i) ==
    /\ runs[i].pc = "read-file"
    /\ \E readOk \in BOOLEAN :
       \E r \in { readFile(disk, runs[i].filePath, readOk) } :
             runs' = [runs EXCEPT ![i] =
                        IF r.threw THEN Throw(runs[i], r.err)
                        ELSE Succeed(runs[i], "extract-data-with-ai")]
    /\ UNCHANGED <<disk, db, events, delivered, http, call, th, view, req, dash>>

StepExtract(i) ==
    /\ runs[i].pc = "extract-data-with-ai"
    /\ \E env \in DocEnvs :
       \E r \in { extractFinancialData(<< >>, env) } :
             runs' = [runs EXCEPT ![i] =
                        IF r.threw THEN Throw(runs[i], r.err)
                        ELSE [Succeed(runs[i], "update-database")
                                EXCEPT !.analysisData = r.data]]
    /\ UNCHANGED <<disk, db, events, delivered, http, call, th, view, req, dash>>

StepUpdateDoc(i) ==
    /\ runs[i].fn = "processFinancialDocument"
    /\ runs[i].pc = "update-database"
    /\ \E env \in DbEnvs :
       \E r \in { updateDatabase(db, runs[i].documentId,
                                   DocCompletedFields(runs[i].analysisData), env) } :
             /\ db' = r.db
             /\ runs' = [runs EXCEPT ![i] =
                           IF r.threw THEN Throw(runs[i], r.err)
                           ELSE End(runs[i], "completed")]
    /\ UNCHANGED <<disk, events, delivered, http, call, th, view, req, dash>>

Init ==
    /\ disk = << >>
    /\ db = << >>
    /\ events = << >>
    /\ delivered = << >>
    /\ runs = << >>
    /\ http = << >>
    /\ call = NoCall
    /\ th = << >>
    /\ view = NoView
    /\ req = NoReq
    /\ dash = NoDash

Next ==
    \/ Upload
    \/ \E j \in DOMAIN events : Deliver(j)
    \/ \E j \in DOMAIN events : Redeliver(j)
    \/ \E i \in DOMAIN runs : StepProcessAudio(i)
    \/ \E i \in DOMAIN runs : StepAnalyze(i)
    \/ \E i \in DOMAIN runs : StepUpdateAudio(i)
    \/ \E i \in DOMAIN runs : StepCleanup(i)
    \/ \E i \in DOMAIN runs : StepReadFile(i)
    \/ \E i \in DOMAIN runs : StepExtract(i)
    \/ \E i \in DOMAIN runs : StepUpdateDoc(i)

Spec == Init /\ [][Next]_vars

\* The executor hands over every sent event and runs every step that is due;
\* uploads and duplicate deliveries are up to the environment.
Fairness ==
    /\ \A j \in 1 .. MaxUploads : WF_vars(Deliver(j))
    /\ \A i \in 1 .. MaxRuns :
         /\ WF_vars(i \in DOMAIN runs /\ StepProcessAudio(i))
         /\ WF_vars(i \in DOMAIN runs /\ StepAnalyze(i))
         /\ WF_vars(i \in DOMAIN runs /\ StepUpdateAudio(i))
         /\ WF_vars(i \in DOMAIN runs /\ StepCleanup(i))
         /\ WF_vars(i \in DOMAIN runs /\ StepReadFile(i))
         /\ WF_vars(i \in DOMAIN runs /\ StepExtract(i))
         /\ WF_vars(i \in DOMAIN runs /\ StepUpdateDoc(i))

FairSpec == Init /\ [][Next]_vars /\ Fairness

----------------------------------------------------------------------------
(* Properties of the pipeline *)

AudioRuns == { i \in DOMAIN runs : runs[i].fn = "processFinancialAudio" }

RunsOf(j) == { i \in DOMAIN runs : runs[i].documentId = j }

TerminalStatus(st) == st \in { "COMPLETED", "FAILED" }

\* the paths an audio run writes: the converted WAV and the denoised WAV
TempPaths(filePath) ==
    { ReplaceMediaExt(filePath), ReplaceFirstWav(ReplaceMediaExt(filePath)) }
        \ { filePath }

\* the denoised (enhanced) audio of a run
EnhancedPath(filePath) == ReplaceFirstWav(ReplaceMediaExt(filePath))

\* the uploaded files of all jobs
SourcePaths == { db[j].fileUrl : j \in DOMAIN db }

\* run i is the only run that writes its temporary paths
SoleWriter(i) ==
    \A k \in AudioRuns \ { i } :
        TempPaths(runs[k].filePath) \cap TempPaths(runs[i].filePath) = { }

\* the files that run i created and that are still on disk
LeftBy(i) ==
    { p \in TempPaths(runs[i].filePath) \ SourcePaths : Exists(disk, p) }

\* C1: when a step of an audio run has failed for good (the run has ended in
\* failure), the job's record has status FAILED and a non-empty processingError;
\* it is not left in PROCESSING.
C1_FailedRunMarksJobFailed ==
    \A i \in AudioRuns :
        runs[i].pc = "failed" =>
            /\ db[runs[i].documentId].status = "FAILED"
            /\ db[runs[i].documentId].processingError # NoError


\* the record the extractor is to return when its backend is unavailable
DegradedAnalysis == [sentiment |-> "Neutral", speakers |-> << >>]

BackendErrors == { "Failed to analyze transcript: GROQ_API_KEY is missing",
                   "Failed to analyze transcript: Connection error" }

\* C2: when the transcription has succeeded and the extraction backend then fails
\* (network, auth, missing key), the job ends COMPLETED with a non-empty
\* transcript and a degraded extracted record, not FAILED and not PROCESSING.
C2_BackendFailureStillCompletes ==
    \A i \in AudioRuns :
        (Terminal(runs[i].pc) /\ runs[i].error \in BackendErrors) =>
            LET rec == db[runs[i].documentId]
            IN  /\ rec.status = "COMPLETED"
                /\ rec.transcript # NoText /\ Len(Trim(rec.transcript)) > 0
                /\ rec.extracted = DegradedAnalysis

\* C3: once a job's status is COMPLETED or FAILED, no later write changes it.
C3_TerminalStatusAbsorbing ==
    [][\A j \in DOMAIN db :
          TerminalStatus(db[j].status) => db'[j].status = db[j].status]_vars

\* C4: every submitted job eventually reaches a terminal status.
C4_EverySubmittedJobTerminates ==
    \A j \in 1 .. MaxUploads :
        (j \in DOMAIN events) ~> (j \in DOMAIN db /\ TerminalStatus(db[j].status))

\* C6: when an audio run has ended in failure, every temporary file it created
\* (converted WAV, denoised WAV) has been removed from disk.
C6_FailedRunLeavesNoTempFiles ==
    \A i \in AudioRuns :
        (runs[i].pc = "failed" /\ SoleWriter(i)) => LeftBy(i) = { }

\* C7: after an audio run has completed (after its 'cleanup' step), the only file
\* it created that may remain on disk is the denoised audio: the converted WAV
\* has been deleted.
C7_CompletedRunKeepsOnlyEnhanced ==
    \A i \in AudioRuns :
        (runs[i].pc = "completed" /\ SoleWriter(i)) =>
            LeftBy(i) \subseteq { EnhancedPath(runs[i].filePath) }


------------------------------------------------------------------------------
(* The start of runs under the functions' throttle configuration.           *)
(* throttle: { limit, period } lets at most `limit` runs of a function      *)
(* START in one period; events beyond that wait in the function's backlog.  *)
(* A started run stays in flight until its last step has ended, however     *)
(* many periods that takes.                                                 *)

AudioThrottleLimit == 2
DocThrottleLimit == 5

MaxBacklog == 2
MaxInFlight == 6

Functions == { "processFinancialAudio", "processFinancialDocument" }

ThrottleLimit(f) ==
    IF f = "processFinancialAudio" THEN AudioThrottleLimit ELSE DocThrottleLimit

InitThrottle ==
    /\ th = [backlog  |-> [f \in Functions |-> 0],
             started  |-> [f \in Functions |-> 0],
             inFlight |-> [f \in Functions |-> 0]]
    /\ disk = << >>
    /\ db = << >>
    /\ events = << >>
    /\ delivered = << >>
    /\ runs = << >>
    /\ http = << >>
    /\ call = NoCall
    /\ view = NoView
    /\ req = NoReq
    /\ dash = NoDash

\* inngest.send: an event for the function joins its backlog
ThrottleSend(f) ==
    /\ th.backlog[f] < MaxBacklog
    /\ th' = [th EXCEPT !.backlog[f] = @ + 1]
    /\ UNCHANGED <<disk, db, events, delivered, runs, http, call, view, req, dash>>

\* a waiting event starts a run, if the period's starts are not used up
ThrottleStart(f) ==
    /\ th.backlog[f] > 0
    /\ th.started[f] < ThrottleLimit(f)
    /\ th.inFlight[f] < MaxInFlight
    /\ th' = [th EXCEPT !.backlog[f] = @ - 1,
                        !.started[f] = @ + 1,
                        !.inFlight[f] = @ + 1]
    /\ UNCHANGED <<disk, db, events, delivered, runs, http, call, view, req, dash>>

\* a run's last step ended
ThrottleFinish(f) ==
    /\ th.inFlight[f] > 0
    /\ th' = [th EXCEPT !.inFlight[f] = @ - 1]
    /\ UNCHANGED <<disk, db, events, delivered, runs, http, call, view, req, dash>>

\* the period ('1m') is over: the next period's starts are available
ThrottlePeriod ==
    /\ \E f \in Functions : th.started[f] > 0
    /\ th' = [th EXCEPT !.started = [f \in Functions |-> 0]]
    /\ UNCHANGED <<disk, db, events, delivered, runs, http, call, view, req, dash>>

NextThrottle ==
    \/ \E f \in Functions : ThrottleSend(f)
    \/ \E f \in Functions : ThrottleStart(f)
    \/ \E f \in Functions : ThrottleFinish(f)
    \/ ThrottlePeriod

ThrottleSpec == InitThrottle /\ [][NextThrottle]_vars

\* C5: at no time are more than 2 audio runs, or more than 5 document runs, in
\* flight at once.
C5_InFlightWithinLimit ==
    /\ th.inFlight["processFinancialAudio"] <= AudioThrottleLimit
    /\ th.inFlight["processFinancialDocument"] <= DocThrottleLimit

------------------------------------------------------------------------------
(* Properties of the audio functions called on their own (CallSpec).        *)

\* C8: a transcribeAudio call (remote or local) that returns normally returns a
\* text that is non-empty after trimming.
C8_TranscriptNeverBlank ==
    (call.fn = "transcribeAudio" /\ ~call.ret.threw) =>
        Len(Trim(call.ret.text)) > 0

\* C9: reduceNoise never rejects: it resolves to the path of the cleaned file
\* it wrote, or to its input path when the tool failed; processAudioComplete
\* does not register the fallback path as a temporary file.
C9_ReduceNoiseNeverRejects ==
    /\ call.fn = "reduceNoise" =>
         /\ ~call.ret.threw
         /\ call.toolOk =>
              /\ call.ret.path = ReplaceFirstWav(call.input)
              /\ Exists(disk, call.ret.path)
         /\ ~call.toolOk => call.ret.path = call.input
    /\ (call.fn = "processAudioComplete" /\ ~call.ret.threw) =>
         (call.ret.cleanPath = call.ret.wavPath =>
            \A k \in 1 .. Len(call.ret.tempFiles) :
                call.ret.tempFiles[k] = call.ret.wavPath
                    /\ call.ret.wavPath # call.input)

C9_FallbackTaken ==
    \/ /\ call.fn = "reduceNoise"
       /\ ~call.toolOk
       /\ ~call.ret.threw
       /\ call.ret.path = call.input
    \/ /\ call.fn = "processAudioComplete"
       /\ ~call.ret.threw
       /\ call.ret.cleanPath = call.ret.wavPath
       /\ Len(call.ret.tempFiles) = 1

\* C10: a convertToWAV call that returns normally returns the path of a file in
\* the canonical format, 16 kHz mono.
C10_ConvertedIsCanonical ==
    (call.fn = "convertToWAV" /\ ~call.ret.threw) =>
        /\ Exists(disk, call.ret.path)
        /\ disk[call.ret.path] = Canonical


\* the input of the recorded call is a WAV file in the canonical format
CanonicalInput ==
    /\ ExtLower(call.input) = ".wav"
    /\ Exists(call.before, call.input)
    /\ call.before[call.input] = Canonical

\* C11: on an input already in the canonical format convertToWAV is a no-op: it
\* returns the input path, runs no conversion and leaves the disk as it was;
\* processAudioComplete registers no temporary file for the conversion stage.
C11_CanonicalInputIsNoOp ==
    /\ (call.fn = "convertToWAV" /\ CanonicalInput) =>
         /\ ~call.ret.threw
         /\ ~call.ret.ran
         /\ call.ret.path = call.input
         /\ disk = call.before
    /\ (call.fn = "processAudioComplete" /\ CanonicalInput) =>
         /\ Exists(disk, call.input)
         /\ ~call.ret.threw =>
              /\ call.ret.wavPath = call.input
              /\ \A k \in 1 .. Len(call.ret.tempFiles) :
                     call.ret.tempFiles[k] # call.input

C11_CanonicalInputReturned ==
    /\ call.fn = "convertToWAV"
    /\ CanonicalInput
    /\ call.input[Len(call.input)] = ".WAV"
    /\ call.ret.path = call.input


\* C12: on an input whose extension is not .wav, the conversion is given an
\* output path different from the input path: the input file is not overwritten
\* and a successful conversion adds exactly one file.
C12_ConversionNeverWritesInput ==
    (call.fn = "convertToWAV" /\ ExtLower(call.input) # ".wav" /\ call.ret.ran) =>
        /\ call.ret.out # call.input
        /\ Exists(disk, call.input)
        /\ disk[call.input] = call.before[call.input]
        /\ ~call.ret.threw =>
             /\ ~Exists(call.before, call.ret.out)
             /\ DOMAIN disk = (DOMAIN call.before) \cup { call.ret.out }


\* C13: no step of a pipeline run deletes or overwrites the uploaded source file
\* of any job.
C13_SourceFilesUntouched ==
    [][http' = http =>
         \A j \in DOMAIN db :
            Exists(disk, db[j].fileUrl) =>
                /\ Exists(disk', db[j].fileUrl)
                /\ disk'[db[j].fileUrl] = disk[db[j].fileUrl]]_vars


AudioJobs == { j \in DOMAIN db : IsAudioType(db[j].fileType) }

\* C14: the temporary paths of two audio jobs uploaded under different paths
\* never coincide, and no job's temporary path is another job's source path.
C14_TempPathsJobScoped ==
    \A j \in AudioJobs : \A k \in AudioJobs \ { j } :
        db[j].fileUrl # db[k].fileUrl =>
            TempPaths(db[j].fileUrl)
                \cap (TempPaths(db[k].fileUrl) \cup { db[k].fileUrl }) = { }


\* the runs of job j that have not ended yet
InFlight(j) == { i \in RunsOf(j) : ~Terminal(runs[i].pc) }

\* C15: for every job at most one run is in flight (and so writing the job's
\* record) at any time, also when the job's event is delivered more than once.
C15_SingleWriterPerJob ==
    \A j \in DOMAIN db : Cardinality(InFlight(j)) <= 1


\* C16: within one run no stage that has already run to its end is run again:
\* a retry does not repeat the conversion, and a retry of a later step does not
\* repeat the transcription.
C16_NoStageRunTwice ==
    \A i \in AudioRuns : runs[i].redone = { }


Sentiments == { "Positive", "Neutral", "Negative" }

\* C17: the record of a COMPLETED audio job is well-typed whatever the language
\* model answered: its sentiment is one of Positive, Neutral, Negative.
C17_CompletedRecordWellTyped ==
    \A j \in AudioJobs :
        db[j].status = "COMPLETED" => db[j].extracted.sentiment \in Sentiments


\* the COMPLETED write of the recorded 'update-database' call failed
CompletedWriteFailed ==
    /\ call.fn = "updateDatabase"
    /\ call.env.connect
    /\ (call.env.w1 = "error" \/ call.id \notin DOMAIN call.store)

\* C18: when the COMPLETED write fails (write error or record not found) the
\* 'update-database' callback makes exactly one further write, setting FAILED
\* with the error message, and re-raises; when that write fails too, the record
\* is left as it was.
C18_FailedWriteMarksFailedOnce ==
    CompletedWriteFailed =>
        /\ call.ret.threw
        /\ call.ret.writes = 2
        /\ call.ret.err # ""
        /\ IF call.env.w2 = "ok" /\ call.id \in DOMAIN call.store
           THEN db = [call.store EXCEPT ![call.id] =
                        [@ EXCEPT !.status = "FAILED",
                                  !.processingError = call.ret.err,
                                  !.processedAt = TRUE]]
           ELSE db = call.store

C18_SecondWriteFailed ==
    /\ CompletedWriteFailed
    /\ call.env.w2 = "error"
    /\ call.ret.threw
    /\ db = call.store


\* C19: a record holds a processingError only when its status is FAILED.
C19_ErrorOnlyWhenFailed ==
    \A j \in DOMAIN db :
        db[j].processingError # NoError => db[j].status = "FAILED"


------------------------------------------------------------------------------
(* The detail page of a job and its polling refresh (ViewSpec).             *)

NoParam == "<absent>"

\* GET /api/documents: the handler reads the query parameters userId and
\* status (and limit, 50 by default, above any store of the model) and answers
\* with the matching records, latest upload first.  Records are numbered in
\* upload order; uploads of the model carry no userId.
GET(store, query) ==
    LET n == Cardinality(DOMAIN store)
        all == [k \in 1 .. n |-> [_id |-> n + 1 - k, status |-> store[n + 1 - k].status]]
        Keep(doc) == /\ query.userId = NoParam
                     /\ (query.status # NoParam => doc.status = query.status)
    IN  SelectSeq(all, Keep)

\* dashboard/[id]/page.tsx: the page of job j is opened with the job's record
OpenView(j) ==
    /\ j \in DOMAIN db
    /\ view = NoView
    /\ view' = [id |-> j, data |-> [_id |-> j, status |-> db[j].status],
                 pending |-> { }]
    /\ UNCHANGED <<disk, db, events, delivered, runs, http, call, th, req, dash>>

\* FinancialReview's polling effect: while the displayed record is PROCESSING,
\* fetch /api/documents?_id=<data._id> and display documents[0] of the answer
Poll ==
    /\ view # NoView
    /\ view.data.status = "PROCESSING"
    /\ \E result \in { GET(db, [_id |-> view.data._id, userId |-> NoParam,
                                status |-> NoParam]) } :
         /\ Len(result) > 0
         /\ result[1] # view.data
         /\ view' = [view EXCEPT !.data = result[1]]
    /\ UNCHANGED <<disk, db, events, delivered, runs, http, call, th, req, dash>>

\* the viewed job's run ends and marks the record (the 'update-database' writes)
ViewedJobEnds ==
    /\ view # NoView
    /\ db[view.id].status = "PROCESSING"
    /\ \E st \in { "COMPLETED", "FAILED" } :
         db' = [db EXCEPT ![view.id].status = st, ![view.id].processedAt = TRUE]
    /\ UNCHANGED <<disk, events, delivered, runs, http, call, th, view, req, dash>>

InitView == Init

NextView ==
    \/ Upload
    \/ \E j \in DOMAIN db : OpenView(j)
    \/ Poll
    \/ ViewedJobEnds

ViewSpec == InitView /\ [][NextView]_vars

\* C20: the record displayed on a job's detail page, also after every polling
\* refresh, is the record of the job being viewed.
C20_PollShowsViewedJob ==
    view # NoView => view.data._id = view.id


------------------------------------------------------------------------------
(* POST /api/upload taken one await at a time (IntakeSpec): the deliveries  *)
(* and the steps of the runs interleave with the handler's awaits.          *)

\* a plausible slip: the event is sent before the record is created
PostOrder_sendFirst == << "send", "create" >>

\* the awaited effects that follow the saving of the file, in the order of
\* the handler: FinancialDocument.create, then inngest.send
PostOrder == << "create", "send" >>

\* the handler up to fs.writeFile: connect, form data, checks, save the file
PostBegin ==
    /\ req = NoReq
    /\ Len(http) < MaxUploads
    /\ RunBudgetUsed < MaxRuns
    /\ \E file \in Uploads, k \in 1 .. (Len(http) + 1), fault \in UploadFaults :
         LET filePath == UploadPath(Stamp(k), file.name)
             content == IF IsAudioType(file.type) THEN UploadedAudio(file.name) ELSE DocFile
         IN
         IF fault = "connect"
         THEN /\ http' = Append(http, 500)
              /\ UNCHANGED <<disk, req>>
         ELSE IF file = NoFile \/ file.type \notin AllowedTypes
         THEN /\ http' = Append(http, 400)
              /\ UNCHANGED <<disk, req>>
         ELSE /\ disk' = WriteFile(disk, filePath, content)
              /\ req' = [pc |-> 1, file |-> file, filePath |-> filePath,
                         id |-> NextId(db), fault |-> fault]
              /\ http' = http
    /\ UNCHANGED <<db, events, delivered, runs, call, th, view, dash>>

\* the next awaited effect of the request being handled; a rejected send is
\* caught (500) and what was done before it stays; after the last effect the
\* handler answers 200
PostStage ==
    /\ req # NoReq
    /\ \E stage \in { PostOrder[req.pc] } :
       \E last \in { req.pc = Len(PostOrder) } :
       \E eventName \in { IF IsAudioType(req.file.type) THEN "app/audio.uploaded"
                          ELSE "app/document.uploaded" } :
         IF stage = "create"
         THEN /\ db' = Extend(db, req.id, NewRecord(req.filePath, req.file.type))
              /\ req' = IF last THEN NoReq ELSE [req EXCEPT !.pc = @ + 1]
              /\ http' = IF last THEN Append(http, 200) ELSE http
              /\ UNCHANGED <<events, delivered>>
         ELSE IF req.fault = "send"
         THEN /\ req' = NoReq
              /\ http' = Append(http, 500)
              /\ UNCHANGED <<db, events, delivered>>
         ELSE /\ events' = Extend(events, req.id,
                               [name |-> eventName, documentId |-> req.id,
                                filePath |-> req.filePath])
              /\ delivered' = Extend(delivered, req.id, 0)
              /\ req' = IF last THEN NoReq ELSE [req EXCEPT !.pc = @ + 1]
              /\ http' = IF last THEN Append(http, 200) ELSE http
              /\ db' = db
    /\ UNCHANGED <<disk, runs, call, th, view, dash>>

InitIntake == Init

NextIntake ==
    \/ PostBegin
    \/ PostStage
    \/ \E j \in DOMAIN events : Deliver(j)
    \/ \E i \in DOMAIN runs : StepProcessAudio(i)
    \/ \E i \in DOMAIN runs : StepAnalyze(i)
    \/ \E i \in DOMAIN runs : StepUpdateAudio(i)
    \/ \E i \in DOMAIN runs : StepCleanup(i)
    \/ \E i \in DOMAIN runs : StepReadFile(i)
    \/ \E i \in DOMAIN runs : StepExtract(i)
    \/ \E i \in DOMAIN runs : StepUpdateDoc(i)

IntakeSpec == InitIntake /\ [][NextIntake]_vars

\* C21: a job's record exists, created in PROCESSING, when its submission event
\* is sent: every sent event and every run is of a job whose record exists; a
\* record enters the store with status PROCESSING, and no step of a pipeline
\* sets the status of an existing record to PROCESSING.
C21_RecordCreatedBeforeEvent ==
    /\ [](/\ \A j \in DOMAIN events : j \in DOMAIN db
          /\ \A i \in DOMAIN runs : runs[i].documentId \in DOMAIN db)
    /\ [][\A j \in DOMAIN db' :
             IF j \in DOMAIN db
             THEN db'[j].status = "PROCESSING" => db[j].status = "PROCESSING"
             ELSE /\ db'[j].status = "PROCESSING"
                  /\ j \notin DOMAIN events]_vars

C21_RunStartedOnCreatedRecord ==
    \E i \in DOMAIN runs :
        /\ runs[i].pc = FirstStep(events[runs[i].documentId].name)
        /\ runs[i].documentId \in DOMAIN db
        /\ db[runs[i].documentId].status = "PROCESSING"
        /\ req # NoReq


------------------------------------------------------------------------------
(* The retry of the remote transcription (CallSpec).                        *)

\* C22: a remote transcribeAudio call issues at most two backend requests; with
\* a token it issues the second one exactly when the first response is 503; a
\* non-OK response to the retry, a second 503 included, makes the call fail.
C22_RetriesOnceOn503 ==
    (call.fn = "transcribeAudio" /\ call.variant = "remote") =>
        /\ call.ret.requests <= 2
        /\ call.ret.requests = 2 <=> (call.env.token /\ call.env.r1.status = 503)
        /\ (call.ret.requests = 2 /\ ~RespOk(call.env.r2)) => call.ret.threw
        /\ (call.ret.requests = 2 /\ RespOk(call.env.r2)) => ~call.ret.threw

C22_SecondLoadingResponse ==
    /\ call.fn = "transcribeAudio"
    /\ call.variant = "remote"
    /\ call.env.r1.status = 503
    /\ call.env.r2.status = 503
    /\ call.ret.requests = 2
    /\ call.ret.threw


------------------------------------------------------------------------------
(* The order of the stages inside step 'process-audio-pipeline' (CallSpec). *)

StageOrder == << "Convert", "Denoise", "Transcribe", "Extract", "Persist", "Cleanup" >>

\* the position of a stage in the pipeline order
StageIndex(name) == CHOOSE k \in DOMAIN StageOrder : StageOrder[k] = name

\* C23: the stages of a job are started in pipeline order, each one only after
\* the stage before it has run to a successful end: in the trace of the first
\* step, every started stage other than Convert has an earlier entry of its
\* predecessor that succeeded.
C23_StagesInPipelineOrder ==
    call.fn = "processAudioPipeline" =>
        \A k \in DOMAIN call.ret.stages :
            StageIndex(call.ret.stages[k].stage) > 1 =>
                \E m \in 1 .. (k - 1) :
                    /\ call.ret.stages[m].ok
                    /\ StageIndex(call.ret.stages[m].stage)
                         = StageIndex(call.ret.stages[k].stage) - 1


------------------------------------------------------------------------------
(* The parsing of the language model's answer (CallSpec).                   *)

\* the backend answered the recorded call with a completion
Answered == call.env.key /\ call.env.backendOk

\* C24: both extractors accept an answer that is valid JSON, accept valid JSON
\* between code-fence markers after stripping the markers, and fail on an
\* answer that is still unparseable, returning no record.
C24_ParsingPolicy ==
    /\ (call.fn = "extractFinancialData" /\ Answered) =>
         /\ Parses(call.env.content) => (~call.ret.threw /\ call.ret.data = DocData)
         /\ Parses(StripFences(call.env.content)) =>
                (~call.ret.threw /\ call.ret.data = DocData)
         /\ ~Parses(StripFences(call.env.content)) =>
                (call.ret.threw /\ call.ret.data = NoAnalysis)
    /\ (call.fn = "analyzeTranscript" /\ Answered) =>
         /\ call.env.content.kind = "json" =>
                (~call.ret.threw /\ call.ret.analysis = call.env.content.value)
         /\ call.env.content.kind = "fenced-json" =>
                (~call.ret.threw /\ call.ret.analysis = call.env.content.value)
         /\ call.env.content.kind = "not-json" =>
                (call.ret.threw /\ call.ret.analysis = NoAnalysis)


------------------------------------------------------------------------------
(* The output file of the local recognizer (CallSpec).                      *)

\* C25: the local transcribeAudio never returns a transcript read from an
\* output file that was on disk before the call (such a file is removed before
\* the recognizer runs), and after a successful read the output file is gone.
C25_NoStaleTranscript ==
    (call.fn = "transcribeAudio" /\ call.variant = "local") =>
        /\ (~call.ret.threw /\ call.ret.from = "file") =>
              /\ call.env.writes
              /\ ~Exists(disk, JsonPath(call.input))
        /\ (Exists(call.before, JsonPath(call.input)) /\ ~call.env.writes) =>
              ~Exists(disk, JsonPath(call.input))


------------------------------------------------------------------------------
(* The choice of the transcription backend in the first step (CallSpec).    *)

\* the recorded call of the step's callback found its file
PipelineCall == call.fn = "processAudioPipeline" /\ Exists(call.before, call.input)

\* what the primary pipeline did in the recorded call
Primary == processAudioComplete(call.before, call.input, call.env.audio)

Blank(t) == Falsy(t) \/ Len(Trim(t)) = 0

\* C26: in step 'process-audio-pipeline' the fallback backend is called only
\* after the primary pipeline has raised; an empty primary transcript calls no
\* fallback and fails the step; usedHuggingFace is true exactly when the returned
\* transcript is the primary's; with the primary raised and no fallback
\* credential the step fails without a fallback call.
C26_FallbackOnlyAfterPrimaryRaised ==
    PipelineCall =>
        /\ call.ret.calledGroq => Primary.threw
        /\ (~Primary.threw /\ Blank(Primary.transcript)) =>
              (call.ret.threw /\ ~call.ret.calledGroq)
        /\ ~call.ret.threw =>
              /\ call.ret.usedHuggingFace <=> ~Primary.threw
              /\ call.ret.usedHuggingFace => call.ret.transcript = Primary.transcript
              /\ ~call.ret.usedHuggingFace =>
                    (call.ret.calledGroq /\ call.ret.transcript = call.env.groq.text)
        /\ (Primary.threw /\ ~call.env.groq.key) =>
              (call.ret.threw /\ ~call.ret.calledGroq)

C26_EmptyPrimaryFailsStep ==
    /\ PipelineCall
    /\ ~Primary.threw
    /\ Primary.transcript = << >>
    /\ call.env.groq.key
    /\ call.ret.threw
    /\ ~call.ret.calledGroq


------------------------------------------------------------------------------
(* The transcript of a record (Spec).                                       *)

\* C27: an audio job's record in PROCESSING has no transcript, and one in
\* COMPLETED has a transcript that is non-empty after trimming.
C27_TranscriptOnlyWithCompleted ==
    \A j \in AudioJobs :
        /\ db[j].status = "PROCESSING" => db[j].transcript = NoText
        /\ db[j].status = "COMPLETED" =>
              (db[j].transcript # NoText /\ Len(Trim(db[j].transcript)) > 0)

C27_CompletedBesideProcessing ==
    \E j \in AudioJobs : \E k \in AudioJobs :
        /\ db[j].status = "COMPLETED"
        /\ db[j].transcript = << "h", "i" >>
        /\ db[k].status = "PROCESSING"
        /\ \E i \in RunsOf(k) : runs[i].pc = "update-database"


------------------------------------------------------------------------------
(* The chat endpoint (CallSpec).                                            *)

\* the recorded chat request names a record of the store
KnownId == call.documentId.kind = "id" /\ call.documentId.id \in DOMAIN call.store

\* the recorded chat request carries a documentId and a message
HasFields == call.documentId.kind # "absent" /\ ~Falsy(call.message)

\* C28: the chat endpoint calls the model only for an existing COMPLETED job;
\* a missing documentId or message gets 400, an unknown id 404, a job in
\* PROCESSING or FAILED 400, each with no model call, and no request changes
\* the store.
C28_ChatOnlyOnCompleted ==
    call.fn = "chat" =>
        /\ db = call.store
        /\ call.ret.modelCalls > 0 =>
              (KnownId /\ call.store[call.documentId.id].status = "COMPLETED")
        /\ ~HasFields => (call.ret.status = 400 /\ call.ret.modelCalls = 0)
        /\ (HasFields /\ call.env.connect /\ ~KnownId) =>
              (call.ret.status = 404 /\ call.ret.modelCalls = 0)
        /\ (HasFields /\ call.env.connect /\ KnownId
               /\ call.store[call.documentId.id].status \in { "PROCESSING", "FAILED" }) =>
              (call.ret.status = 400 /\ call.ret.modelCalls = 0)


------------------------------------------------------------------------------
(* Upload requests answered with an error (Spec).                           *)

\* the upload requests answered with a success response
Accepted == { k \in DOMAIN http : http[k] = 200 }

\* C29: an upload request answered with an error leaves no record in the store:
\* there are as many records as accepted requests, and the submission event of
\* every record has been sent.
C29_ErrorResponseLeavesNoRecord ==
    /\ Cardinality(DOMAIN db) = Cardinality(Accepted)
    /\ \A j \in DOMAIN db : j \in DOMAIN events


------------------------------------------------------------------------------
(* The polling of the detail page and of the dashboard, with the answers of *)
(* the fetches in flight (PollSpec).  A fetch is answered from the store as *)
(* it is when the request is handled; its answer reaches the page later, in *)
(* no fixed order with the answers of the page's other fetches.             *)

MaxPending == 2      \* answers in flight to one page

\* the run of job j ends and marks the record (the 'update-database' writes)
JobEnds(j) ==
    /\ db[j].status = "PROCESSING"
    /\ \E st \in { "COMPLETED", "FAILED" } :
         db' = [db EXCEPT ![j].status = st, ![j].processedAt = TRUE]
    /\ UNCHANGED <<disk, events, delivered, runs, http, call, th, view, req, dash>>

\* the detail page's interval is set while the displayed status is PROCESSING
DetailPolling == view # NoView /\ view.data.status = "PROCESSING"

\* FinancialReview, a tick of the interval: fetch('/api/documents?_id=' + data._id)
PollRequest ==
    /\ DetailPolling
    /\ Cardinality(view.pending) < MaxPending
    /\ \E result \in { GET(db, [_id |-> view.data._id, userId |-> NoParam,
                                status |-> NoParam]) } :
         /\ result \notin view.pending
         /\ view' = [view EXCEPT !.pending = @ \cup { result }]
    /\ UNCHANGED <<disk, db, events, delivered, runs, http, call, th, req, dash>>

\* FinancialReview, the fetch resolves: if (result.documents[0]) setData(it)
PollResponse ==
    /\ view # NoView
    /\ \E result \in view.pending :
         view' = [view EXCEPT !.pending = @ \ { result },
                              !.data = IF Len(result) > 0 THEN result[1] ELSE @]
    /\ UNCHANGED <<disk, db, events, delivered, runs, http, call, th, req, dash>>

Filters == { "all", "PROCESSING", "COMPLETED", "FAILED" }

\* the filters the user of the model picks
FiltersPicked == { "all", "COMPLETED" }

\* DashboardPage.fetchDocuments for a filter: the request and its answer, with
\* what made the page fetch
Fetch(filter, cause) ==
    [cause |-> cause,
     documents |-> GET(db, [_id |-> NoParam, userId |-> NoParam,
                            status |-> IF filter = "all" THEN NoParam ELSE filter])]

\* the dashboard's interval is set while a listed record is PROCESSING
DashPolling ==
    dash.open /\ \E k \in DOMAIN dash.documents : dash.documents[k].status = "PROCESSING"

\* DashboardPage mounts: filter 'all', no documents, the first fetch is made
\* (the browser shows one page at a time)
OpenDash ==
    /\ dash = NoDash
    /\ view = NoView
    /\ dash' = [open |-> TRUE, filter |-> "all", polled |-> "all", documents |-> << >>,
                seen |-> Len(http), pending |-> { Fetch("all", "mount") }]
    /\ UNCHANGED <<disk, db, events, delivered, runs, http, call, th, view, req>>

\* the user picks another filter: the effect on [filter] fetches
DashSetFilter(f) ==
    /\ dash.open
    /\ f # dash.filter
    /\ Cardinality(dash.pending) < MaxPending
    /\ dash' = [dash EXCEPT !.filter = f, !.pending = @ \cup { Fetch(f, "filter") }]
    /\ UNCHANGED <<disk, db, events, delivered, runs, http, call, th, view, req>>

\* an upload made from the page has been answered: handleUploadComplete fetches
DashUploadComplete ==
    /\ dash.open
    /\ dash.seen < Len(http)
    /\ Cardinality(dash.pending) < MaxPending
    /\ dash' = [dash EXCEPT !.seen = Len(http),
                            !.pending = @ \cup { Fetch(dash.filter, "upload") }]
    /\ UNCHANGED <<disk, db, events, delivered, runs, http, call, th, view, req>>

\* a tick of the dashboard's interval: the fetchDocuments of the render that
\* set the interval, with the filter of that render
DashPoll ==
    /\ DashPolling
    /\ Cardinality(dash.pending) < MaxPending
    /\ \E f \in { Fetch(dash.polled, "poll") } :
         /\ f \notin dash.pending
         /\ dash' = [dash EXCEPT !.pending = @ \cup { f }]
    /\ UNCHANGED <<disk, db, events, delivered, runs, http, call, th, view, req>>

\* a fetch of the dashboard resolves: setDocuments(data.documents); the effect
\* on [documents] runs again with the filter of this render
DashResponse ==
    /\ dash.open
    /\ \E f \in dash.pending :
         dash' = [dash EXCEPT !.pending = @ \ { f }, !.documents = f.documents,
                              !.polled = dash.filter]
    /\ UNCHANGED <<disk, db, events, delivered, runs, http, call, th, view, req>>

InitPoll == Init

NextPoll ==
    \/ Upload
    \/ \E j \in DOMAIN db : JobEnds(j)
    \/ \E j \in DOMAIN db : dash = NoDash /\ OpenView(j)
    \/ PollRequest
    \/ PollResponse
    \/ OpenDash
    \/ \E f \in FiltersPicked : DashSetFilter(f)
    \/ DashUploadComplete
    \/ DashPoll
    \/ DashResponse

PollSpec == InitPoll /\ [][NextPoll]_vars

\* C30: the detail page fetches only while its displayed status is PROCESSING
\* and, once it has displayed COMPLETED or FAILED, does not poll again; the
\* dashboard makes polling fetches only while a listed record is PROCESSING
\* and, once none is, polls again only after the answer to a fetch made for an
\* upload or a filter change (or the page's first fetch).
C30_PollingStopsForGood ==
    [][/\ (view # NoView /\ view'.pending \ view.pending # { }) => DetailPolling
       /\ (view # NoView /\ ~DetailPolling) => ~DetailPolling'
       /\ (dash.open /\ \E f \in dash'.pending \ dash.pending : f.cause = "poll")
             => DashPolling
       /\ (dash.open /\ ~DashPolling /\ DashPolling')
             => \E f \in dash.pending \ dash'.pending : f.cause # "poll"]_vars

====
